---- MODULE Spec2Model ----
(***************************************************************************)
(* The attack rating calculator of erdb: the rating engine (correction     *)
(* curves, correction tables, balance data, engine state), the wiki page's *)
(* armament container that drives one engine per displayed armament, and   *)
(* the command line's calculate-ar handler.                                *)
(*                                                                         *)
(* Floating point values are modelled as exact rationals <<n, d>>, d > 0,  *)
(* kept in lowest terms.  Text is modelled as sequences of one-character   *)
(* strings.                                                                *)
(***************************************************************************)
EXTENDS Integers, Sequences, FiniteSets, TLC

VARIABLES
    graph,      \* curve study: the registered correction curves
    cv,         \* curve study: the last CorrectionCurve.evaluate call
    mode,       \* which program or study runs: the page, a session, the command line, ...
    raw,        \* the four externally supplied tables
    data,       \* the BalanceData built from raw (NoData if construction failed)
    fields,     \* AttributeMenu._attribs: the text of the five input fields
    _attribs,   \* ArmamentContainer._attribs
    _calcs,     \* ArmamentContainer._calcs: key -> engine state
    _elems,     \* ArmamentContainer._elems: key -> displayed entry
    err,        \* web: outcome of the last handler
    last,       \* web: what the last handler was
    engine,     \* cli/session: the engine instance (NoEngine before construction)
    out,        \* cli/session: the last engine operation and its result
    stdout,     \* cli: lines printed by calculate_ar
    hist,       \* history: the level round trip in progress
    _selection, \* ArmamentSelector._selection
    _temporary, \* ArmamentSelector._temporary
    _is_open,   \* ArmamentSelector._is_open
    selected,   \* the choices that carry the active class
    filter,     \* the text of the filter field
    visible,    \* what the last run of _on_filter left visible
    labels,     \* the counts shown on the open and the save button
    timers,     \* the event loop's pending call_later handles
    called,     \* history: the last call of each debounced function
    ran,        \* history: the last debounced body that ran
    opened,     \* history: the dialog session in progress
    cell        \* grade study: one scaling cell

vars == <<graph, cv, mode, raw, data, fields, _attribs, _calcs, _elems, err, last,
          engine, out, stdout, hist, _selection, _temporary, _is_open, selected,
          filter, visible, labels, timers, called, ran, opened, cell>>

-----------------------------------------------------------------------------
(* Bounds *)

MaxX == 5          \* curve study: breakpoints lie in 1..MaxX
MaxCurveLen == 3   \* curve study: at most this many breakpoints

-----------------------------------------------------------------------------
(* Exact arithmetic standing in for Python floats *)

Abs(n) == IF n < 0 THEN -n ELSE n

RECURSIVE GCD(_, _)
GCD(a, b) == IF b = 0 THEN a ELSE GCD(b, a % b)

\* n/d divided through by g, with a positive denominator
Lowest(n, d, g) == IF d < 0 THEN <<(-n) \div g, (-d) \div g>> ELSE <<n \div g, d \div g>>

Rat(n, d) == Lowest(n, d, GCD(Abs(n), Abs(d)))

RInt(n) == <<n, 1>>
RAdd(a, b) == Rat(a[1] * b[2] + b[1] * a[2], a[2] * b[2])
RSub(a, b) == Rat(a[1] * b[2] - b[1] * a[2], a[2] * b[2])
RMul(a, b) == Rat(a[1] * b[1], a[2] * b[2])
RDiv(a, b) == Rat(a[1] * b[2], a[2] * b[1])
RLe(a, b) == a[1] * b[2] <= b[1] * a[2]
RLt(a, b) == a[1] * b[2] < b[1] * a[2]
RMax(a, b) == IF RLe(a, b) THEN b ELSE a
\* math.floor
floor(a) == a[1] \div a[2]

RECURSIVE RSum(_, _)
\* sum of f[k] over the keys k of the sequence ks
RSum(f, ks) == IF ks = <<>> THEN RInt(0) ELSE RAdd(f[Head(ks)], RSum(f, Tail(ks)))

RECURSIVE ISum(_, _)
ISum(f, ks) == IF ks = <<>> THEN 0 ELSE f[Head(ks)] + ISum(f, Tail(ks))

Range(s) == {s[i] : i \in DOMAIN s}

\* dict.get(key, default)
Get(m, k, default) == IF k \in DOMAIN m THEN m[k] ELSE default

-----------------------------------------------------------------------------
(* Text: str(), int() and the string formatting the page uses *)

Digits == <<"0", "1", "2", "3", "4", "5", "6", "7", "8", "9">>

RECURSIVE StrNat(_)
StrNat(n) == IF n < 10 THEN <<Digits[n + 1]>> ELSE Append(StrNat(n \div 10), Digits[(n % 10) + 1])

\* str(n) of an integer
str(n) == IF n < 0 THEN <<"-">> \o StrNat(-n) ELSE StrNat(n)

DigitValue(c) == (CHOOSE i \in DOMAIN Digits : Digits[i] = c) - 1

RECURSIVE IntNat(_)
IntNat(t) == IF Len(t) = 1 THEN DigitValue(t[1])
             ELSE 10 * IntNat(SubSeq(t, 1, Len(t) - 1)) + DigitValue(t[Len(t)])

IsNat(t) == Len(t) >= 1 /\ \A i \in DOMAIN t : t[i] \in Range(Digits)

\* int(text) succeeds on an optionally signed run of digits
IsInt(t) == IF t # <<>> /\ Head(t) \in {"-", "+"} THEN IsNat(Tail(t)) ELSE IsNat(t)

int(t) == IF Head(t) = "-" THEN -IntNat(Tail(t))
          ELSE IF Head(t) = "+" THEN IntNat(Tail(t))
          ELSE IntNat(t)

-----------------------------------------------------------------------------
(* CorrectionCurve *)

first(curve) == curve[1]
lastPt(curve) == curve[Len(curve)]

\* mutant: the slope is taken over x1 instead of x1 - x0
Interpolate_WrongSpan(p0, p1, x) ==
    RAdd(RInt(p0[2]),
         RDiv(RMul(RInt(p1[2] - p0[2]), RInt(x - p0[1])), RInt(p1[1])))

\* y0 + (y1 - y0) * (x - x0) / (x1 - x0)
Interpolate(p0, p1, x) ==
    RAdd(RInt(p0[2]),
         RDiv(RMul(RInt(p1[2] - p0[2]), RInt(x - p0[1])), RInt(p1[1] - p0[1])))

\* the bracketing pair: the first segment i with curve[i].x <= x <= curve[i+1].x
Bracket(curve, x) ==
    CHOOSE i \in 1..(Len(curve) - 1) :
        /\ curve[i][1] <= x /\ x <= curve[i + 1][1]
        /\ \A j \in 1..(i - 1) : ~(curve[j][1] <= x /\ x <= curve[j + 1][1])

\* mutant: no clamping, the end segments are extended beyond the endpoints
EvaluateCurve_Extrapolate(curve, x) ==
    IF Len(curve) = 1 THEN RInt(first(curve)[2])
    ELSE IF x <= first(curve)[1] THEN Interpolate(curve[1], curve[2], x)
    ELSE IF x >= lastPt(curve)[1]
    THEN Interpolate(curve[Len(curve) - 1], curve[Len(curve)], x)
    ELSE LET i == Bracket(curve, x) IN Interpolate(curve[i], curve[i + 1], x)

EvaluateCurve(curve, x) ==
    IF x <= first(curve)[1] THEN RInt(first(curve)[2])
    ELSE IF x >= lastPt(curve)[1] THEN RInt(lastPt(curve)[2])
    ELSE LET i == Bracket(curve, x) IN Interpolate(curve[i], curve[i + 1], x)

\* evaluate(curve_id, x): [err, val]
evaluate(g, curve_id, x) ==
    IF curve_id \notin DOMAIN g THEN [err |-> "UnknownCurve", val |-> RInt(0)]
    ELSE [err |-> "ok", val |-> EvaluateCurve(g[curve_id], x)]

-----------------------------------------------------------------------------
(* The fixed name sets of the engine *)

AttributeNames == <<"strength", "dexterity", "intelligence", "faith", "arcane">>
DamageTypes == <<"physical", "magic", "fire", "lightning", "holy">>
StatusTypes == <<"bleed", "frostbite", "poison", "scarlet_rot", "sleep", "madness">>
GuardTypes == <<"boost", "physical", "magic", "fire", "lightning", "holy">>

Empty == [k \in {} |-> 0]

-----------------------------------------------------------------------------
(* The externally supplied tables.  A row carries one multiplier per        *)
(* damage type, status type, guard value and attribute.                     *)

Row(atk, st, gd, sc) ==
    [damage |-> [t \in Range(DamageTypes) |-> IF t = "fire" THEN RAdd(atk, Rat(1, 4)) ELSE atk],
     status_effects |-> [t \in Range(StatusTypes) |-> st],
     guard |-> [t \in {"guard_boost"} \cup Range(DamageTypes) |-> gd],
     resistance |-> [t \in Range(StatusTypes) |-> gd],
     scaling |-> [a \in Range(AttributeNames) |-> IF a = "dexterity" THEN RAdd(sc, Rat(1, 2)) ELSE sc]]

SmithingRows ==
    << Row(RInt(1), RInt(1), RInt(1), RInt(1)),
       Row(Rat(11, 10), RInt(1), Rat(21, 20), Rat(6, 5)),
       Row(Rat(3, 2), Rat(5, 4), Rat(11, 10), Rat(7, 4)) >>

SomberRows ==
    << Row(RInt(1), RInt(1), RInt(1), RInt(1)),
       Row(Rat(5, 4), Rat(3, 2), Rat(6, 5), Rat(3, 2)) >>

Reinforcements == (<<"0">> :> SmithingRows) @@ (<<"1">> :> SomberRows)

CorrectionGraph ==
    (0 :> << <<1, 0>>, <<20, 50>>, <<60, 90>>, <<99, 100>> >>) @@
    (1 :> << <<1, 5>>, <<51, 30>>, <<99, 42>> >>)

CorrectionAttack ==
    (0 :> [a \in Range(AttributeNames) |->
              IF a \in {"strength", "dexterity"}
              THEN [curve |-> 0, multiplier |-> RInt(100)]
              ELSE [curve |-> 1, multiplier |-> RInt(50)]]) @@
    (1 :> (("dexterity" :> [curve |-> 0, multiplier |-> RInt(100)]) @@
           ("intelligence" :> [curve |-> 1, multiplier |-> RInt(120)])))

ClubStandard ==
    [id |-> 0, reinforcement_id |-> 0, correction_id |-> 0,
     damage |-> ("physical" :> RInt(100)),
     status_effects |-> Empty,
     guard |-> ("guard_boost" :> RInt(30)) @@ ("physical" :> RInt(45)) @@ ("fire" :> RInt(25)),
     resistance |-> ("bleed" :> RInt(15)),
     scaling |-> ("strength" :> Rat(9, 10)),
     scaling_rate |-> ("physical" :> RInt(1))]

ClubHeavy ==
    [id |-> 100, reinforcement_id |-> 0, correction_id |-> 0,
     damage |-> ("physical" :> RInt(91)) @@ ("fire" :> Rat(1, 2)),
     status_effects |-> Empty,
     guard |-> ("guard_boost" :> RInt(29)) @@ ("physical" :> RInt(43)),
     resistance |-> ("bleed" :> RInt(15)),
     scaling |-> ("strength" :> Rat(7, 5)) @@ ("faith" :> Rat(1, 5)),
     scaling_rate |-> ("physical" :> Rat(6, 5)) @@ ("fire" :> Rat(1, 3))]

MoonveilStandard ==
    [id |-> 0, reinforcement_id |-> 1, correction_id |-> 1,
     damage |-> ("physical" :> RInt(73)) @@ ("magic" :> RInt(87)) @@ ("holy" :> RInt(-40)),
     status_effects |-> ("bleed" :> RInt(50)),
     guard |-> ("guard_boost" :> RInt(31)) @@ ("magic" :> Rat(115, 2)),
     resistance |-> Empty,
     scaling |-> ("dexterity" :> Rat(1, 4)) @@ ("intelligence" :> Rat(3, 5)),
     scaling_rate |-> ("physical" :> Rat(1, 2)) @@ ("magic" :> Rat(3, 4)) @@
                      ("holy" :> Rat(1, 10)) @@ ("bleed" :> Rat(1, 4))]

Club ==
    [name |-> "Club", icon |-> 257, category |-> "Hammers",
     upgrade_material |-> <<"Smithing", "Stone">>,
     upgrade_costs |-> <<100, 200>>,
     requirements |-> ("strength" :> 20),
     affinity |-> ("Heavy" :> ClubHeavy) @@ ("Standard" :> ClubStandard)]

Moonveil ==
    [name |-> "Moonveil", icon |-> 731, category |-> "Katanas",
     upgrade_material |-> <<"Somber", "Smithing", "Stone">>,
     upgrade_costs |-> <<300>>,
     requirements |-> ("strength" :> 12) @@ ("dexterity" :> 18) @@ ("intelligence" :> 23),
     affinity |-> ("Standard" :> MoonveilStandard)]

Armaments == ("Club" :> Club) @@ ("Moonveil" :> Moonveil)

Tables ==
    [armaments |-> Armaments, reinforcements |-> Reinforcements,
     correction_attack |-> CorrectionAttack, correction_graph |-> CorrectionGraph]

\* the same tables with the last row of the smithing sequence missing
ShortRows == [Tables EXCEPT !.reinforcements[<<"0">>] = SubSeq(SmithingRows, 1, 2)]

\* the same tables with a correction group that has no entry for strength
NoStrength ==
    [Tables EXCEPT !.correction_attack[0] =
        [a \in Range(AttributeNames) \ {"strength"} |-> CorrectionAttack[0][a]]]

\* the same tables with a variant naming a reinforcement group that is absent
NoGroup == [Tables EXCEPT !.armaments["Moonveil"].affinity["Standard"].reinforcement_id = 7]

RawTables == {Tables, ShortRows, NoStrength, NoGroup}

-----------------------------------------------------------------------------
(* BalanceData: construction validates the referential invariants *)

NoData == [armaments |-> Empty, reinforcements |-> Empty,
           correction_attack |-> Empty, correction_graph |-> Empty]

\* maximum upgrade level: the length of the upgrade-cost sequence
max_level(armament) == Len(armament.upgrade_costs)

\* the attributes a variant scales on
ScalesOn(variant) == {a \in Range(AttributeNames) : Get(variant.scaling, a, RInt(0)) # RInt(0)}

StrictlyIncreasing(curve) ==
    /\ Len(curve) >= 1
    /\ \A i \in 1..(Len(curve) - 1) : curve[i][1] < curve[i + 1][1]

VariantWellFormed(t, armament, variant) ==
    /\ str(variant.reinforcement_id) \in DOMAIN t.reinforcements
    /\ Len(t.reinforcements[str(variant.reinforcement_id)]) >= max_level(armament) + 1
    /\ variant.correction_id \in DOMAIN t.correction_attack
    /\ \A a \in ScalesOn(variant) :
          /\ a \in DOMAIN t.correction_attack[variant.correction_id]
          /\ t.correction_attack[variant.correction_id][a].curve \in DOMAIN t.correction_graph

WellFormed(t) ==
    /\ \A k \in DOMAIN t.armaments :
          \A n \in DOMAIN t.armaments[k].affinity :
              VariantWellFormed(t, t.armaments[k], t.armaments[k].affinity[n])
    /\ \A c \in DOMAIN t.correction_graph : StrictlyIncreasing(t.correction_graph[c])

\* CalculatorData(armaments, reinforcements, correction_attack, correction_graph)
CalculatorData(t) ==
    IF WellFormed(t) THEN [err |-> "ok", data |-> t]
    ELSE [err |-> "MalformedTable", data |-> NoData]

\* reinforcement_row(group_id, level)
reinforcement_row(d, group_id, level) ==
    IF str(group_id) \in DOMAIN d.reinforcements
       /\ (level + 1) \in DOMAIN d.reinforcements[str(group_id)]
    THEN [err |-> "ok", row |-> d.reinforcements[str(group_id)][level + 1]]
    ELSE [err |-> "NotFound", row |-> <<>>]

-----------------------------------------------------------------------------
(* CorrectionTable *)

\* rate(table_id, attribute) -> (curve_id, multiplier)
rate(d, table_id, attribute) ==
    IF table_id \notin DOMAIN d.correction_attack
    THEN [err |-> "UnknownCorrectionGroup", curve |-> 0, multiplier |-> RInt(0)]
    ELSE IF attribute \notin DOMAIN d.correction_attack[table_id]
    THEN [err |-> "UnknownAttributeMapping", curve |-> 0, multiplier |-> RInt(0)]
    ELSE [err |-> "ok", curve |-> d.correction_attack[table_id][attribute].curve,
          multiplier |-> d.correction_attack[table_id][attribute].multiplier]

\* contribution = evaluate(curve_id, attribute_value) * multiplier / 100
scaled(r, e) ==
    IF r.err # "ok" THEN [err |-> r.err, val |-> RInt(0)]
    ELSE IF e.err # "ok" THEN [err |-> e.err, val |-> RInt(0)]
    ELSE [err |-> "ok", val |-> RDiv(RMul(e.val, r.multiplier), RInt(100))]

contribution(d, table_id, attribute, value) ==
    scaled(rate(d, table_id, attribute),
           evaluate(d.correction_graph, rate(d, table_id, attribute).curve, value))

-----------------------------------------------------------------------------
(* AttackRatingEngine: state (weapon_key, affinity, level) *)

NoEngine == [weapon_key |-> "", affinity |-> "", level |-> 0]

\* ArmamentCalculator(data, key, affinity, level)
ArmamentCalculator(d, key, affinity, level) ==
    IF key \notin DOMAIN d.armaments THEN [err |-> "UnknownWeapon", eng |-> NoEngine]
    ELSE IF affinity \notin DOMAIN d.armaments[key].affinity
    THEN [err |-> "UnknownAffinity", eng |-> NoEngine]
    ELSE IF level < 0 \/ level > max_level(d.armaments[key])
    THEN [err |-> "LevelOutOfRange", eng |-> NoEngine]
    ELSE [err |-> "ok", eng |-> [weapon_key |-> key, affinity |-> affinity, level |-> level]]

set_affinity(d, eng, name) ==
    IF name \notin DOMAIN d.armaments[eng.weapon_key].affinity
    THEN [err |-> "UnknownAffinity", eng |-> eng]
    ELSE [err |-> "ok", eng |-> [eng EXCEPT !.affinity = name]]

set_level(d, eng, n) ==
    IF n < 0 \/ n > max_level(d.armaments[eng.weapon_key])
    THEN [err |-> "LevelOutOfRange", eng |-> eng]
    ELSE [err |-> "ok", eng |-> [eng EXCEPT !.level = n]]

variantOf(d, eng) == d.armaments[eng.weapon_key].affinity[eng.affinity]

\* the summed contribution of the attributes the variant scales on: [err, val]
summed(c) ==
    IF \E a \in DOMAIN c : c[a].err # "ok"
    THEN [err |-> c[CHOOSE a \in DOMAIN c : c[a].err # "ok"].err, val |-> RInt(0)]
    ELSE [err |-> "ok",
          val |-> RSum([a \in Range(AttributeNames) |->
                           IF a \in DOMAIN c THEN c[a].val ELSE RInt(0)],
                       AttributeNames)]

contributions(d, variant, attrs) ==
    summed([a \in ScalesOn(variant) |-> contribution(d, variant.correction_id, a, attrs[a])])

\* total = floor(max(0, base + scaling))
total(base, scaling) == floor(RMax(RInt(0), RAdd(base, scaling)))

\* one {base, scaling, total} entry; contributed is the summed contribution
\* of the attributes the variant scales on
AttackPowerEntry(base, scaling) ==
    [base |-> base, scaling |-> scaling, total |-> total(base, scaling)]

entry(variant, contributed, bases, multipliers, type) ==
    AttackPowerEntry(RMul(Get(bases, type, RInt(0)), multipliers[type]),
                     RMul(Get(variant.scaling_rate, type, RInt(0)), contributed))

\* the synthesized aggregate: the element-wise sum across the five types
aggregate(items) ==
    [base |-> RSum([t \in DOMAIN items |-> items[t].base], DamageTypes),
     scaling |-> RSum([t \in DOMAIN items |-> items[t].scaling], DamageTypes),
     total |-> ISum([t \in DOMAIN items |-> items[t].total], DamageTypes)]

\* attack_power(attributes): [err, items, total], the five entries and the
\* aggregate
with_total(items) == [err |-> "ok", items |-> items, total |-> aggregate(items)]

attack_power_of(variant, found, contributed) ==
    IF found.err # "ok" THEN [err |-> found.err]
    ELSE IF contributed.err # "ok" THEN [err |-> contributed.err]
    ELSE with_total([t \in Range(DamageTypes) |->
                        entry(variant, contributed.val, variant.damage, found.row.damage, t)])

attack_power(d, eng, attrs) ==
    attack_power_of(variantOf(d, eng),
                    reinforcement_row(d, variantOf(d, eng).reinforcement_id, eng.level),
                    contributions(d, variantOf(d, eng), attrs))

\* status_effects(attributes): [err, items], the six entries, no aggregate
status_effects_of(variant, found, contributed) ==
    IF found.err # "ok" THEN [err |-> found.err]
    ELSE IF contributed.err # "ok" THEN [err |-> contributed.err]
    ELSE [err |-> "ok",
          items |-> [t \in Range(StatusTypes) |->
              entry(variant, contributed.val, variant.status_effects,
                    found.row.status_effects, t)]]

status_effects(d, eng, attrs) ==
    status_effects_of(variantOf(d, eng),
                      reinforcement_row(d, variantOf(d, eng).reinforcement_id, eng.level),
                      contributions(d, variantOf(d, eng), attrs))

-----------------------------------------------------------------------------
(* Idle values of the variables a specification does not use *)

NoCall == [called |-> FALSE, id |-> 0, x |-> 0, err |-> "ok", val |-> RInt(0)]
NoOut == [op |-> "none"]
NoTrip == [stage |-> 0]
NoRun == [fn |-> "none"]
NoSession == [clean |-> FALSE]
NoCell == [called |-> FALSE, value |-> RInt(0),
           priv_scaling |-> [a \in {"strength"} |-> [text |-> "", tooltip |-> RInt(0)]]]
NothingShown == [choices |-> {}, categories |-> {}, buttons |-> TRUE]
NoLabels == [open |-> 0, save |-> 0]

\* the selector and the event loop before the page is constructed
SelectorUnused ==
    /\ _selection = {} /\ _temporary = {} /\ _is_open = FALSE /\ selected = {}
    /\ filter = <<>> /\ visible = NothingShown /\ labels = NoLabels /\ timers = <<>>
    /\ called = Empty /\ ran = NoRun /\ opened = NoSession

\* a handler of the container leaves the selector alone
SelectorKept ==
    /\ UNCHANGED <<_selection, _temporary, _is_open, selected, filter, visible, labels,
                   timers, called>>
    /\ ran' = NoRun /\ opened' = NoSession

SelectorIdle ==
    UNCHANGED <<_selection, _temporary, _is_open, selected, filter, visible, labels,
                timers, called, ran, opened>>

-----------------------------------------------------------------------------
(* Curve study: CorrectionCurve.evaluate on every small curve *)

YValues == {0, 30, 50}
XRange == (0 - 1)..(MaxX + 2)

\* every breakpoint sequence of the length n, strictly increasing in x
CurvesOfLen(n) ==
    {c \in [1..n -> (1..MaxX) \X YValues] : \A i \in 1..(n - 1) : c[i][1] < c[i + 1][1]}

Curves == UNION {CurvesOfLen(n) : n \in 1..MaxCurveLen}

NonDecreasing(curve) == \A i \in 1..(Len(curve) - 1) : curve[i][2] <= curve[i + 1][2]

InitCurve ==
    /\ mode = "curve"
    /\ graph \in {(0 :> c) : c \in Curves}
    /\ cv = NoCall
    /\ raw = NoData /\ data = NoData
    /\ fields = Empty /\ _attribs = Empty /\ _calcs = Empty /\ _elems = Empty
    /\ err = "ok" /\ last = NoOut
    /\ engine = NoEngine /\ out = NoOut /\ stdout = <<>> /\ hist = NoTrip
    /\ SelectorUnused /\ cell = NoCell

Evaluate(curve_id, x) ==
    /\ mode = "curve"
    /\ cv' = [called |-> TRUE, id |-> curve_id, x |-> x,
              err |-> evaluate(graph, curve_id, x).err,
              val |-> evaluate(graph, curve_id, x).val]
    /\ UNCHANGED <<graph, mode, raw, data, fields, _attribs, _calcs, _elems,
                   err, last, engine, out, stdout, hist, cell>>
    /\ SelectorIdle

NextCurve == \E curve_id \in {0, 1}, x \in XRange : Evaluate(curve_id, x)

SpecCurve == InitCurve /\ [][NextCurve]_vars

\* C2: on a registered curve, x at or below the first breakpoint evaluates to
\* the first percentage and x at or above the last to the last percentage,
\* and moving x further out beyond an endpoint never changes the result.
C2_Clamp ==
    /\ [](cv.called /\ cv.id \in DOMAIN graph =>
            /\ cv.err = "ok"
            /\ cv.x <= first(graph[cv.id])[1] => cv.val = RInt(first(graph[cv.id])[2])
            /\ cv.x >= lastPt(graph[cv.id])[1] => cv.val = RInt(lastPt(graph[cv.id])[2]))
    /\ [][cv.called /\ cv.id \in DOMAIN graph /\ cv'.id = cv.id =>
            /\ (cv'.x <= cv.x /\ cv.x <= first(graph[cv.id])[1]) => cv'.val = cv.val
            /\ (cv'.x >= cv.x /\ cv.x >= lastPt(graph[cv.id])[1]) => cv'.val = cv.val]_vars

\* an evaluation strictly outside the breakpoints of a curve whose end
\* segments are not flat
C2_Witness ==
    /\ cv.called /\ cv.id \in DOMAIN graph
    /\ Len(graph[cv.id]) >= 2
    /\ graph[cv.id][1][2] # graph[cv.id][2][2]
    /\ cv.x < first(graph[cv.id])[1]
    /\ cv.val = RInt(first(graph[cv.id])[2])

\* C3: on a curve with non-decreasing percentages evaluate is non-decreasing
\* in x, and on any curve evaluate at a breakpoint is that breakpoint's
\* percentage.
C3_Monotone ==
    /\ [](cv.called /\ cv.id \in DOMAIN graph =>
            \A i \in DOMAIN graph[cv.id] :
                cv.x = graph[cv.id][i][1] => cv.val = RInt(graph[cv.id][i][2]))
    /\ [][(/\ cv.called /\ cv.id \in DOMAIN graph /\ cv'.id = cv.id
           /\ NonDecreasing(graph[cv.id])
           /\ cv.x <= cv'.x) => RLe(cv.val, cv'.val)]_vars

\* an evaluation strictly inside a rising segment, giving a value strictly
\* between the segment's percentages
C3_Witness ==
    /\ cv.called /\ cv.id \in DOMAIN graph
    /\ NonDecreasing(graph[cv.id])
    /\ \E i \in 1..(Len(graph[cv.id]) - 1) :
          /\ graph[cv.id][i][1] < cv.x /\ cv.x < graph[cv.id][i + 1][1]
          /\ RLt(RInt(graph[cv.id][i][2]), cv.val)
          /\ RLt(cv.val, RInt(graph[cv.id][i + 1][2]))

-----------------------------------------------------------------------------
(* ArmamentEntry: one displayed armament.  A cell is the inner text of an  *)
(* element; a select element is its options and its current value.        *)

\* ArmamentEntry._normalize
_normalize(value) == IF value = 0 THEN <<"-">> ELSE str(value)

\* mutant: a value on a threshold gets the grade below
grade_Strict(value) ==
    IF RLt(Rat(175, 100), value) THEN "S"
    ELSE IF RLt(Rat(14, 10), value) THEN "A"
    ELSE IF RLt(Rat(9, 10), value) THEN "B"
    ELSE IF RLt(Rat(6, 10), value) THEN "C"
    ELSE IF RLt(Rat(25, 100), value) THEN "D"
    ELSE IF RLt(RInt(0), value) THEN "E"
    ELSE "-"

\* the grade of ArmamentEntry.set_scaling
grade(value) ==
    IF RLe(Rat(175, 100), value) THEN "S"
    ELSE IF RLe(Rat(14, 10), value) THEN "A"
    ELSE IF RLe(Rat(9, 10), value) THEN "B"
    ELSE IF RLe(Rat(6, 10), value) THEN "C"
    ELSE IF RLe(Rat(25, 100), value) THEN "D"
    ELSE IF RLt(RInt(0), value) THEN "E"
    ELSE "-"

\* round(value, 2): to the nearest hundredth, ties to even
nearest(lo, twice) ==
    IF RLt(twice, RInt(1)) THEN lo
    ELSE IF RLt(RInt(1), twice) THEN lo + 1
    ELSE IF lo % 2 = 0 THEN lo ELSE lo + 1

\* h is the value in hundredths
hundredths(h) == Rat(nearest(floor(h), RSub(RMul(h, RInt(2)), RInt(2 * floor(h)))), 100)

round2(value) == hundredths(RMul(value, RInt(100)))

set_attack_power(et, attack_type, value) ==
    [et EXCEPT !.priv_attack_power[attack_type] = _normalize(value)]

set_guard(et, guard_type, value) ==
    [et EXCEPT !.priv_guard[guard_type] = _normalize(value)]

set_status_effect(et, effect_type, value) ==
    [et EXCEPT !.priv_status_effect[effect_type] = _normalize(value)]

set_resistance(et, resistance_type, value) ==
    [et EXCEPT !.priv_resistance[resistance_type] = _normalize(value)]

set_scaling(et, attribute, value) ==
    [et EXCEPT !.priv_scaling[attribute] = [text |-> grade(value), tooltip |-> round2(value)]]

\* mutant: a requirement is met only when exceeded
is_met_Strict(armament_value, player_value) == player_value > armament_value

\* is_met = player_value >= armament_value
is_met(armament_value, player_value) == player_value >= armament_value

set_requirement(et, attribute, armament_value, player_value) ==
    [et EXCEPT !.priv_requirement[attribute] =
        [danger |-> ~is_met(armament_value, player_value),
         text |-> _normalize(armament_value)]]

\* mutant: the menu is enabled whenever it has an option
set_affinities_Enabled(et, affinities) ==
    [et EXCEPT !.priv_affinities =
        [options |-> affinities, value |-> affinities[1], is_enabled |-> Len(affinities) >= 1]]

\* a select element shows its first option until another one is picked
set_affinities(et, affinities) ==
    [et EXCEPT !.priv_affinities =
        [options |-> affinities, value |-> affinities[1], is_enabled |-> Len(affinities) > 1]]

set_levels(et, levels) ==
    [et EXCEPT !.priv_levels = [options |-> levels, value |-> levels[1]]]

set_title(et, name, icon_id) == [et EXCEPT !.priv_title = name, !.priv_icon = icon_id]

\* ArmamentEntry.create: a clone of the template, nothing filled in yet
ArmamentEntry_create(key) ==
    [key |-> key,
     priv_title |-> "", priv_icon |-> 0,
     priv_affinities |-> [options |-> <<>>, value |-> "", is_enabled |-> TRUE],
     priv_levels |-> [options |-> <<>>, value |-> <<>>],
     priv_requirement |-> [a \in Range(AttributeNames) |-> [danger |-> FALSE, text |-> <<>>]],
     priv_scaling |-> [a \in Range(AttributeNames) |-> [text |-> "", tooltip |-> RInt(0)]],
     priv_attack_power |-> [t \in {"total"} \cup Range(DamageTypes) |-> <<>>],
     priv_status_effect |-> [t \in Range(StatusTypes) |-> <<>>],
     priv_guard |-> [t \in Range(GuardTypes) |-> <<>>],
     priv_resistance |-> [t \in Range(StatusTypes) |-> <<>>]]

-----------------------------------------------------------------------------
(* ArmamentEntryFactory *)

RECURSIVE sorted_by_id(_, _)
\* the names of the variants in ascending order of their id
sorted_by_id(affinity, names) ==
    IF names = {} THEN <<>>
    ELSE LET n == CHOOSE m \in names : \A o \in names : affinity[m].id <= affinity[o].id
         IN  <<n>> \o sorted_by_id(affinity, names \ {n})

sorted_affinities(armament) ==
    IF Cardinality(DOMAIN armament.affinity) > 1
    THEN sorted_by_id(armament.affinity, DOMAIN armament.affinity)
    ELSE IF Head(armament.upgrade_material) = "Somber" THEN <<"Somber">> ELSE <<"Standard">>

\* mutant: one level more than the upgrade costs allow
levels_OneMore(armament) == [i \in 1..(Len(armament.upgrade_costs) + 2) |-> <<"+">> \o str(i - 1)]

\* levels = [f"+{i}" for i in range(0, len(armament["upgrade_costs"]) + 1)]
levels(armament) == [i \in 1..(Len(armament.upgrade_costs) + 1) |-> <<"+">> \o str(i - 1)]

\* ArmamentEntryFactory.create
factory_create(t, key) ==
    LET armament == t.armaments[key]
        et0 == ArmamentEntry_create(key)
        et1 == set_title(et0, armament.name, armament.icon)
        et2 == set_affinities(et1, sorted_affinities(armament))
    IN  set_levels(et2, levels(armament))

-----------------------------------------------------------------------------
(* ArmamentContainer *)

\* mutant: the aggregate cell is recomputed from the summed base and scaling
total_cell_Recomputed(ap) == floor(RMax(RInt(0), RAdd(ap.total.base, ap.total.scaling)))

\* ap.total: the value painted into the "total" cell
total_cell(ap) == ap.total.total

\* mutant: the row one past the engine's level
row_index_OffByOne(level) == level + 2

\* reinforcements[...][calc.level]: Python indexes from 0, a sequence from 1
row_index(level) == level + 1

\* mutant: the level one above the picked option
level_of_OffByOne(text) == int(Tail(text)) + 1

\* int(element.value[1:]), dropping the initial "+"
level_of(text) == int(Tail(text))

RECURSIVE FoldTypes(_, _, _)
\* for t in types: et = Op(et, t)
FoldTypes(Op(_, _), et, types) ==
    IF types = <<>> THEN et ELSE FoldTypes(Op, Op(et, Head(types)), Tail(types))

\* the body of ArmamentContainer._update_values after its table lookups
paint(armament, affinity, reinforcement, et, ap, se, attribs) ==
    IF ap.err # "ok" THEN [err |-> ap.err, et |-> et]
    ELSE IF se.err # "ok" THEN [err |-> se.err, et |-> et]
    ELSE
    LET
        Attack(e, attack_type) ==
            set_guard(set_attack_power(e, attack_type, ap.items[attack_type].total),
                      attack_type,
                      floor(RMul(Get(affinity.guard, attack_type, RInt(0)),
                                 reinforcement.guard[attack_type])))
        Effect(e, effect_type) ==
            set_resistance(set_status_effect(e, effect_type, se.items[effect_type].total),
                           effect_type,
                           floor(RMul(Get(affinity.resistance, effect_type, RInt(0)),
                                      reinforcement.resistance[effect_type])))
        Attribute(e, attribute) ==
            set_requirement(set_scaling(e, attribute,
                                        RMul(Get(affinity.scaling, attribute, RInt(0)),
                                             reinforcement.scaling[attribute])),
                            attribute,
                            Get(armament.requirements, attribute, 0),
                            attribs[attribute])
        et1 == set_attack_power(et, "total", total_cell(ap))
        et2 == set_guard(et1, "boost",
                         floor(RMul(Get(affinity.guard, "guard_boost", RInt(0)),
                                    reinforcement.guard["guard_boost"])))
        et3 == FoldTypes(Attack, et2, DamageTypes)
        et4 == FoldTypes(Effect, et3, StatusTypes)
    IN  [err |-> "ok", et |-> FoldTypes(Attribute, et4, AttributeNames)]

\* the row of the affinity's reinforcement group at the engine's level
row_of(t, group, level) ==
    IF group \notin DOMAIN t.reinforcements THEN [err |-> "KeyError"]
    ELSE IF row_index(level) \notin DOMAIN t.reinforcements[group] THEN [err |-> "IndexError"]
    ELSE [err |-> "ok", row |-> t.reinforcements[group][row_index(level)]]

\* ArmamentContainer._update_values: [err, et].  The table lookups of its
\* first lines raise before anything is painted.
_update_values(t, d, et, calc, attribs) ==
    IF calc.affinity \notin DOMAIN t.armaments[et.key].affinity
    THEN [err |-> "KeyError", et |-> et]
    ELSE IF row_of(t, str(t.armaments[et.key].affinity[calc.affinity].reinforcement_id),
                   calc.level).err # "ok"
    THEN [err |-> row_of(t, str(t.armaments[et.key].affinity[calc.affinity].reinforcement_id),
                         calc.level).err,
          et |-> et]
    ELSE paint(t.armaments[et.key], t.armaments[et.key].affinity[calc.affinity],
               row_of(t, str(t.armaments[et.key].affinity[calc.affinity].reinforcement_id),
                      calc.level).row,
               et, attack_power(d, calc, attribs), status_effects(d, calc, attribs), attribs)

-----------------------------------------------------------------------------
(* Inputs *)

MaxLevelInput == 3     \* levels asked of an engine range over -1..MaxLevelInput
LevelInputs == (0 - 1)..MaxLevelInput

WeaponNames == {"Club", "Moonveil", "Torch"}
AffinityInputs == {"Standard", "Heavy", "Somber"}

\* the texts the attribute fields hold when the page loads
FieldTexts(attribute) ==
    IF attribute = "strength" THEN {<<"1">>, <<"2", "0">>, <<"9", "9">>}
    ELSE IF attribute \in {"dexterity", "intelligence"} THEN {<<"1">>, <<"2", "0">>}
    ELSE IF attribute = "faith" THEN {<<"2", "0">>}
    ELSE {<<"9", "9">>}

\* the texts typed into an attribute field
InputTexts(attribute) ==
    IF attribute = "strength" THEN {<<"-", "5">>, <<"2", "0">>, <<"1", "5", "0">>}
    ELSE IF attribute \in {"dexterity", "intelligence"} THEN {<<"0">>, <<"2", "0">>}
    ELSE IF attribute = "faith" THEN {<<"+", "2", "0">>}
    ELSE {<<"1", "0", "0">>}

\* texts typed into an attribute field that are no integers
OtherTexts(attribute) ==
    IF attribute = "faith" THEN {<<>>}
    ELSE IF attribute = "arcane" THEN {<<"1", ".", "5">>}
    ELSE {}

\* the attribute sets of a session and of the command line
SessionAttributes ==
    { [a \in Range(AttributeNames) |-> 20],
      [a \in Range(AttributeNames) |-> IF a \in {"strength", "faith"} THEN 99 ELSE 12],
      [a \in Range(AttributeNames) |-> IF a = "intelligence" THEN 40 ELSE 1] }

\* the attribute sets the page can hold
PageAttributes ==
    {[a \in Range(AttributeNames) |-> int(f[a])] :
        f \in {g \in [Range(AttributeNames) -> {<<"1">>, <<"2", "0">>, <<"9", "9">>}] :
                  \A a \in Range(AttributeNames) : g[a] \in FieldTexts(a)}}

\* the engine states a well-formed table set admits
EngineStates(t) ==
    {[weapon_key |-> k, affinity |-> a, level |-> l] :
        k \in DOMAIN t.armaments, a \in AffinityInputs, l \in 0..MaxLevelInput} \cap
    {e \in [weapon_key : DOMAIN t.armaments, affinity : AffinityInputs, level : 0..MaxLevelInput] :
        /\ e.affinity \in DOMAIN t.armaments[e.weapon_key].affinity
        /\ e.level <= max_level(t.armaments[e.weapon_key])}

WellFormedTables == {t \in RawTables : WellFormed(t)}

\* _update_values of a freshly created entry, computed once per input
UpdateTable ==
    [t \in WellFormedTables |->
        [calc \in EngineStates(t) |->
            [attribs \in PageAttributes |->
                _update_values(t, CalculatorData(t).data,
                               factory_create(t, calc.weapon_key), calc, attribs)]]]

\* _update_values, looked up in UpdateTable where it is tabulated.  Every
\* cell of the entry is repainted; the title, the icon and the two menus are
\* left as they are.
repainted(u, et) ==
    IF u.err # "ok" THEN [err |-> u.err, et |-> et]
    ELSE [err |-> "ok",
          et |-> [u.et EXCEPT !.priv_affinities = et.priv_affinities,
                              !.priv_levels = et.priv_levels]]

Repaint(t, d, et, calc, attribs) ==
    repainted(IF /\ t \in DOMAIN UpdateTable /\ d = t
                 /\ calc \in DOMAIN UpdateTable[t] /\ et.key = calc.weapon_key
                 /\ attribs \in PageAttributes
              THEN UpdateTable[t][calc][attribs]
              ELSE _update_values(t, d, et, calc, attribs),
              et)

\* AttributeMenu._create_attribs: Attributes(*(int(elem.value) for elem in self._attribs))
_create_attribs(f) == [a \in Range(AttributeNames) |-> int(f[a])]

Put(m, k, v) == [x \in DOMAIN m \cup {k} |-> IF x = k THEN v ELSE m[x]]
Del(m, k) == [x \in DOMAIN m \ {k} |-> m[x]]

Idle == UNCHANGED <<graph, cv, engine, out, stdout, cell>>

\* history of level changes: stage 1 after a level change away from level0
\* (shown holds what was shown or computed at level0), stage 2 after the
\* next level change, when it goes back to level0
Trip(h, key, level0, level1, shown) ==
    IF level1 = level0 THEN h
    ELSE IF h.stage = 1 /\ h.key = key /\ h.level0 = level1
    THEN [h EXCEPT !.stage = 2]
    ELSE [stage |-> 1, key |-> key, level0 |-> level0, shown |-> shown]

\* the totals an entry shows
Shown(et) == [attack_power |-> et.priv_attack_power, status_effect |-> et.priv_status_effect]

-----------------------------------------------------------------------------
(* debounce and the event loop.  Time is counted in ticks of 0.05 s; a     *)
(* pending call carries the ticks left until it is due.                    *)

FilterDelay == 5   \* @debounce(0.25) of _on_filter
SaveDelay == 6     \* @debounce(0.3) of select_and_save

delay_of(fn) == IF fn = "_on_filter" THEN FilterDelay ELSE SaveDelay

\* the pending calls of fn
pending(ts, fn) == {i \in DOMAIN ts : ts[i].fn = fn}

\* the pending call wrapper._handle refers to is not the handle any more
forget(ts, fn) ==
    [i \in DOMAIN ts |-> IF ts[i].fn = fn THEN [ts[i] EXCEPT !.handle = FALSE] ELSE ts[i]]

\* mutant: the pending call is left to run
cancel_Skip(ts, fn) == forget(ts, fn)

\* if hasattr(wrapper, "_handle"): wrapper._handle.cancel()
cancel(ts, fn) ==
    LET keep(t) == ~(t.fn = fn /\ t.handle) IN SelectSeq(ts, keep)

\* wrapper._handle = pyscript.loop.call_later(delay, partial(func, *args))
call_later(ts, fn, args) ==
    Append(ts, [fn |-> fn, args |-> args, left |-> delay_of(fn), handle |-> TRUE])

\* the wrapper debounce(delay) puts around fn
debounce(ts, fn, args) == call_later(cancel(ts, fn), fn, args)

\* the calls of fn since its body last ran: the arguments of the last one,
\* the ticks since, and whether it took the place of a call with other
\* arguments
note_call(c, fn, args) ==
    Put(c, fn, [args |-> args, age |-> 0,
                burst |-> fn \in DOMAIN c /\ (c[fn].burst \/ c[fn].args # args)])

\* the body of fn ran
note_run(c, fn) == IF fn \in DOMAIN c THEN Del(c, fn) ELSE c

\* n ticks pass for the calls that wait for their body to run
aged(c, n) ==
    [fn \in DOMAIN c |->
        [c[fn] EXCEPT !.age = IF @ + n > SaveDelay THEN SaveDelay + 1 ELSE @ + n]]

\* the ticks until the next pending call is due
next_due(ts) == CHOOSE n \in 0..SaveDelay :
                   /\ \E i \in DOMAIN ts : ts[i].left = n
                   /\ \A i \in DOMAIN ts : ts[i].left >= n

without(ts, i) == SubSeq(ts, 1, i - 1) \o SubSeq(ts, i + 1, Len(ts))

-----------------------------------------------------------------------------
(* ArmamentSelector.  The choices are the armaments of the selection grid, *)
(* in the order of the grid.                                               *)

Uppercase == <<"A", "B", "C", "D", "E", "F", "G", "H", "I", "J", "K", "L", "M",
               "N", "O", "P", "Q", "R", "S", "T", "U", "V", "W", "X", "Y", "Z">>
Lowercase == <<"a", "b", "c", "d", "e", "f", "g", "h", "i", "j", "k", "l", "m",
               "n", "o", "p", "q", "r", "s", "t", "u", "v", "w", "x", "y", "z">>

\* str.lower
lower(t) ==
    [i \in DOMAIN t |->
        IF \E j \in DOMAIN Uppercase : Uppercase[j] = t[i]
        THEN Lowercase[CHOOSE j \in DOMAIN Uppercase : Uppercase[j] = t[i]]
        ELSE t[i]]

\* needle in hay, for strings
contains(needle, hay) ==
    \E i \in 0..(Len(hay) - Len(needle)) : SubSeq(hay, i + 1, i + Len(needle)) = needle

\* the characters of the keys and the categories
Spelling ==
    ("Club" :> <<"C", "l", "u", "b">>) @@
    ("Moonveil" :> <<"M", "o", "o", "n", "v", "e", "i", "l">>) @@
    ("Hammers" :> <<"H", "a", "m", "m", "e", "r", "s">>) @@
    ("Katanas" :> <<"K", "a", "t", "a", "n", "a", "s">>)

\* _Armament.create: tags = f"{key.lower()} {category.lower()}"
_Armament_create(key, category) ==
    [key |-> key, category |-> category,
     tags |-> lower(Spelling[key]) \o <<" ">> \o lower(Spelling[category])]

\* self._choices, one per armament of the grid
_choices ==
    << _Armament_create("Club", Armaments["Club"].category),
       _Armament_create("Moonveil", Armaments["Moonveil"].category) >>

choice_keys == {_choices[i].key : i \in DOMAIN _choices}
category_names == {_choices[i].category : i \in DOMAIN _choices}

\* the filter field, the element every _on_filter call is given
FilterField == "filter-armament-selection"

\* the state the selector's handlers work on
Selector ==
    [selection |-> _selection, temporary |-> _temporary, is_open |-> _is_open,
     selected |-> selected, filter |-> filter, visible |-> visible, labels |-> labels,
     timers |-> timers, called |-> called, calcs |-> _calcs, elems |-> _elems,
     err |-> "ok"]

\* an exception leaves the handler
raise(s, e) == [s EXCEPT !.err = e]

\* a call of the debounced fn
wrapper(s, fn, args) ==
    [s EXCEPT !.timers = debounce(@, fn, args), !.called = note_call(@, fn, args)]

_update_open_button(s) == [s EXCEPT !.labels.open = Cardinality(s.selection)]

_update_save_button(s) == [s EXCEPT !.labels.save = Cardinality(s.temporary)]

\* mutant: the key leaves _temporary but the choice stays marked
on_armament_Marked(s, key) ==
    IF s.err # "ok" THEN s
    ELSE IF key \in s.selected
    THEN IF key \notin s.temporary THEN raise(s, "KeyError")
         ELSE _update_save_button([s EXCEPT !.temporary = @ \ {key}])
    ELSE _update_save_button([s EXCEPT !.temporary = @ \cup {key}, !.selected = @ \cup {key}])

\* ArmamentSelector.on_armament on the choice with the key
on_armament(s, key) ==
    IF s.err # "ok" THEN s
    ELSE IF key \in s.selected
    THEN IF key \notin s.temporary THEN raise(s, "KeyError")
         ELSE _update_save_button([s EXCEPT !.temporary = @ \ {key}, !.selected = @ \ {key}])
    ELSE _update_save_button([s EXCEPT !.temporary = @ \cup {key}, !.selected = @ \cup {key}])

RECURSIVE click_each(_, _, _)
\* [self.on_armament(element=a.wrapped) for a in choices if a.key in keys]
click_each(s, choices, keys) ==
    IF choices = <<>> THEN s
    ELSE click_each(IF Head(choices).key \in keys THEN on_armament(s, Head(choices).key) ELSE s,
                    Tail(choices), keys)

\* mutant: the marks a cancelled session left behind stay
reselect_Leftovers(marks, temporary, choices) == marks \cup (choice_keys \cap temporary)

RECURSIVE reselect(_, _, _)
\* for arm in self._choices: arm.deselect(); if arm.key in self._temporary: arm.select()
reselect(marks, temporary, choices) ==
    IF choices = <<>> THEN marks
    ELSE reselect(IF Head(choices).key \in temporary
                  THEN (marks \ {Head(choices).key}) \cup {Head(choices).key}
                  ELSE marks \ {Head(choices).key},
                  temporary, Tail(choices))

\* ArmamentSelector.on_open
on_open(s) ==
    IF s.err # "ok" THEN s
    ELSE [s EXCEPT !.temporary = s.selection,
                   !.selected = reselect(@, s.selection, _choices),
                   !.labels.save = Cardinality(s.selection),
                   !.is_open = TRUE]

\* ArmamentSelector.toggle: the click on the open button runs on_open
toggle(s) == on_open(s)

\* ArmamentSelector.on_close
on_close(s) ==
    IF s.err # "ok" THEN s
    ELSE [_update_open_button(wrapper([s EXCEPT !.temporary = {}, !.filter = <<>>],
                                      "_on_filter", FilterField))
          EXCEPT !.is_open = FALSE]

\* ArmamentContainer.remove
remove(s, key) ==
    IF s.err # "ok" THEN s
    ELSE IF key \notin DOMAIN s.elems \/ key \notin DOMAIN s.calcs THEN raise(s, "KeyError")
    ELSE [s EXCEPT !.calcs = Del(@, key), !.elems = Del(@, key)]

\* the entry and the calculator ArmamentContainer.add was given, painted
added(s, key, made, upd) ==
    IF made.err # "ok" THEN raise(s, made.err)
    ELSE IF upd.err # "ok"
    THEN raise([s EXCEPT !.calcs = Put(@, key, made.eng), !.elems = Put(@, key, upd.et)],
               upd.err)
    ELSE [s EXCEPT !.calcs = Put(@, key, made.eng), !.elems = Put(@, key, upd.et)]

\* et = self._factory.create(added, self._on_remove); self._container.add(et)
add(s, key) ==
    IF s.err # "ok" THEN s
    ELSE IF key \notin DOMAIN raw.armaments THEN raise(s, "KeyError")
    ELSE added(s, key, ArmamentCalculator(data, key, "Standard", 0),
               Repaint(raw, data, factory_create(raw, key),
                       ArmamentCalculator(data, key, "Standard", 0).eng, _attribs))

RECURSIVE remove_each(_, _, _)
remove_each(s, choices, keys) ==
    IF choices = <<>> THEN s
    ELSE remove_each(IF Head(choices).key \in keys THEN remove(s, Head(choices).key) ELSE s,
                     Tail(choices), keys)

RECURSIVE add_each(_, _, _)
add_each(s, choices, keys) ==
    IF choices = <<>> THEN s
    ELSE add_each(IF Head(choices).key \in keys THEN add(s, Head(choices).key) ELSE s,
                  Tail(choices), keys)

\* self._selection = copy(self._temporary)
saved(s) == IF s.err # "ok" THEN s ELSE [s EXCEPT !.selection = s.temporary]

\* ArmamentSelector.on_save
on_save(s) ==
    on_close(saved(add_each(remove_each(s, _choices, s.selection \ s.temporary),
                            _choices, s.temporary \ s.selection)))

\* mutant: the entry is removed, the key stays selected
_on_remove_Selected(s, key) == _update_open_button(remove(s, key))

\* ArmamentSelector._on_remove
_on_remove(s, key) ==
    IF remove(s, key).err # "ok" THEN remove(s, key)
    ELSE IF key \notin s.selection THEN raise(remove(s, key), "KeyError")
    ELSE _update_open_button([remove(s, key) EXCEPT !.selection = @ \ {key}])

\* the choices with a mark, or without one, among those of the keys
marked(s, keys) == keys \cap s.selected
unmarked(s, keys) == keys \ s.selected

\* ArmamentSelector.on_category
on_category(s, category) ==
    IF \A i \in DOMAIN _choices :
          _choices[i].category = category => _choices[i].key \in s.selected
    THEN click_each(s, _choices,
                    marked(s, {_choices[i].key : i \in {j \in DOMAIN _choices :
                                                    _choices[j].category = category}}))
    ELSE click_each(s, _choices,
                    unmarked(s, {_choices[i].key : i \in {j \in DOMAIN _choices :
                                                      _choices[j].category = category}}))

\* ArmamentSelector.on_all_armaments
on_all_armaments(s) ==
    IF s.visible.choices \subseteq s.selected
    THEN click_each(s, _choices, marked(s, s.visible.choices))
    ELSE click_each(s, _choices, unmarked(s, s.visible.choices))

\* the body of ArmamentSelector.select_and_save
select_and_save(s) ==
    IF ~s.is_open \/ Len(s.filter) = 0 THEN s
    ELSE toggle(on_save(click_each(s, _choices, unmarked(s, s.visible.choices))))

\* the choices whose tags contain the lowered text
matching(text) == {_choices[i].key : i \in {j \in DOMAIN _choices :
                                            contains(lower(text), _choices[j].tags)}}

\* the body of ArmamentSelector._on_filter
_on_filter(s) ==
    [s EXCEPT !.visible =
        [choices |-> matching(s.filter),
         categories |-> {_choices[i].category : i \in {j \in DOMAIN _choices :
                                                  _choices[j].key \in matching(s.filter)}},
         buttons |-> Len(s.filter) = 0]]

\* the page as the script leaves it: every choice shown, nothing selected
Blank ==
    [selection |-> {}, temporary |-> {}, is_open |-> FALSE, selected |-> {},
     filter |-> <<>>,
     visible |-> [choices |-> choice_keys, categories |-> category_names, buttons |-> TRUE],
     labels |-> NoLabels, timers |-> <<>>, called |-> Empty,
     calcs |-> Empty, elems |-> Empty, err |-> "ok"]

\* the page at work ("web"), its attribute fields typed into ("fields"), the
\* dialog at work ("select"), and the dialog typed into, tick by tick ("keys")
PageModes == {"web", "fields", "select", "keys"}

\* the page of mode "web" is worked on while the dialog is closed and no
\* call is pending
Quiet == mode = "web" /\ ~_is_open /\ timers = <<>>

\* the texts typed into the filter field: none, and one that matches the
\* key of Club only
FilterTexts == {<<>>, <<"C", "l">>}

\* the arguments of the calls of the debounce study
CallArgs == {"a", "b"}

\* the pending calls the event loop looks at: one per debounced function
MaxPending == 2

\* the handler's result becomes the state of the page
Commit(r, op, key, arg) ==
    /\ _selection' = r.selection /\ _temporary' = r.temporary /\ _is_open' = r.is_open
    /\ selected' = r.selected /\ filter' = r.filter /\ visible' = r.visible
    /\ labels' = r.labels /\ timers' = r.timers /\ called' = r.called
    /\ _calcs' = r.calcs /\ _elems' = r.elems /\ err' = r.err
    /\ last' = [op |-> op, key |-> key, arg |-> arg]
    /\ hist' = NoTrip
    /\ UNCHANGED <<mode, raw, data, fields, _attribs>>
    /\ Idle

\* what the page looked like when the dialog was opened
Session ==
    [clean |-> TRUE, stage |-> "open", selection |-> _selection, calcs |-> _calcs,
     elems |-> _elems]

\* the marks on the choices before the dialog is opened, and whether the
\* session before was cancelled
Leftover == [marks |-> selected, cancelled |-> opened.clean /\ opened.stage = "closed"]

\* The choices, the category buttons, the filter field and the save and the
\* close button are parts of the dialog: they take events while it is open.

\* the click on the open button
OnOpen ==
    /\ mode \in {"web", "select", "keys"} /\ data # NoData
    /\ Commit(on_open(Selector), "on_open", "", Leftover)
    /\ opened' = Session
    /\ ran' = NoRun

\* the click on a choice of the dialog
OnArmament(key) ==
    /\ mode \in {"web", "select"} /\ data # NoData
    /\ _is_open /\ key \in choice_keys
    /\ Commit(on_armament(Selector, key), "on_armament", "", <<>>)
    /\ ran' = NoRun
    /\ UNCHANGED opened

\* the click on a category button of the dialog
OnCategory(category) ==
    /\ mode = "select" /\ data # NoData
    /\ _is_open /\ visible.buttons /\ category \in category_names
    /\ Commit(on_category(Selector, category), "on_category", "", <<>>)
    /\ ran' = NoRun
    /\ UNCHANGED opened

\* the click on the button that toggles every visible choice
OnAllArmaments ==
    /\ mode = "select" /\ data # NoData
    /\ _is_open
    /\ Commit(on_all_armaments(Selector), "on_all_armaments", "", <<>>)
    /\ ran' = NoRun
    /\ UNCHANGED opened

\* the click on the save button of the dialog
OnSave ==
    /\ mode \in {"web", "select"} /\ data # NoData
    /\ _is_open
    /\ Commit(on_save(Selector), "on_save", "",
              [removed |-> _selection \ _temporary, added |-> _temporary \ _selection])
    /\ opened' = NoSession
    /\ ran' = NoRun

\* the click on the close button of the dialog
OnClose ==
    /\ mode = "select" /\ data # NoData
    /\ _is_open
    /\ Commit(on_close(Selector), "on_close", "", <<>>)
    /\ opened' = IF opened.clean THEN [opened EXCEPT !.stage = "closed"] ELSE opened
    /\ ran' = NoRun

\* the click on the remove button of an entry
Remove(key) ==
    /\ (mode = "select" \/ Quiet) /\ data # NoData
    /\ key \in DOMAIN _elems
    /\ Commit(_on_remove(Selector, key), "remove", key, <<>>)
    /\ opened' = NoSession
    /\ ran' = NoRun

\* the input event of the filter field: the field holds the text, then _on_filter
OnFilterInput(text) ==
    /\ mode \in {"select", "keys"} /\ data # NoData
    /\ _is_open /\ text # filter
    /\ Commit(wrapper([Selector EXCEPT !.filter = text], "_on_filter", FilterField),
              "input", "", <<>>)
    /\ ran' = NoRun
    /\ UNCHANGED opened

\* on_key_down
OnKeyDown(code) ==
    /\ mode \in {"select", "keys"} /\ data # NoData
    /\ \/ /\ code = "Slash"
          /\ Commit(toggle(Selector), "toggle", "", Leftover)
          /\ opened' = Session
       \/ /\ code = "Enter"
          /\ Commit(wrapper(Selector, "select_and_save", ""), "keydown", "", <<>>)
          /\ UNCHANGED opened
    /\ ran' = NoRun

\* the scaling values a cell is given: hundredths from below zero upwards
MaxHundredths == 180
ScalingValues == {Rat(k, 100) : k \in (0 - 5)..MaxHundredths}

\* ArmamentEntry.set_scaling on one cell, apart from any page
SetScaling(value) ==
    /\ mode = "grade"
    /\ cell' = [set_scaling(cell, "strength", value) EXCEPT !.value = value, !.called = TRUE]
    /\ last' = [op |-> "set_scaling", key |-> "", arg |-> value]
    /\ UNCHANGED <<graph, cv, mode, raw, data, fields, _attribs, _calcs, _elems, err, hist,
                   engine, out, stdout>>
    /\ SelectorIdle

\* a call of a debounced function, apart from any page
Call(fn, args) ==
    /\ mode = "debounce"
    /\ timers' = debounce(timers, fn, args)
    /\ called' = note_call(called, fn, args)
    /\ ran' = NoRun
    /\ last' = [op |-> "call", key |-> "", arg |-> <<>>]
    /\ UNCHANGED <<mode, raw, data, fields, _attribs, _calcs, _elems, err, hist, opened,
                   _selection, _temporary, _is_open, selected, filter, visible, labels>>
    /\ Idle

\* time passes: no call is due, and none becomes overdue.  Where the page is
\* typed into or a function is called, time is followed tick by tick;
\* elsewhere it passes until the next call is due.
Tick ==
    /\ mode \in PageModes \cup {"debounce"}
    /\ timers # <<>> /\ next_due(timers) > 0
    /\ \E n \in {IF mode \in {"keys", "debounce"} THEN 1 ELSE next_due(timers)} :
          /\ timers' = [i \in DOMAIN timers |-> [timers[i] EXCEPT !.left = @ - n]]
          /\ called' = aged(called, n)
    /\ ran' = NoRun
    /\ last' = [op |-> "tick", key |-> "", arg |-> <<>>]
    /\ UNCHANGED <<mode, raw, data, fields, _attribs, _calcs, _elems, err, hist, opened,
                   _selection, _temporary, _is_open, selected, filter, visible, labels>>
    /\ Idle

\* the selector with the i-th pending call taken off the loop
Due(i) ==
    [Selector EXCEPT !.timers = without(@, i), !.called = note_run(@, timers[i].fn)]

\* what the body of fn does
body(fn, s) ==
    IF fn = "_on_filter" THEN _on_filter(s) ELSE select_and_save(s)

\* what is known of the call that runs: its arguments and those of the last
\* call, the ticks since the last call, whether the last call took the place
\* of another and whether the calls have been answered already; what the body
\* found on the page and whether it changed the choice of armaments
Ran(i, after) ==
    [fn |-> timers[i].fn, args |-> timers[i].args,
     again |-> timers[i].fn \notin DOMAIN called,
     last_args |-> IF timers[i].fn \in DOMAIN called THEN called[timers[i].fn].args ELSE "",
     since |-> IF timers[i].fn \in DOMAIN called THEN called[timers[i].fn].age ELSE 0,
     burst |-> timers[i].fn \in DOMAIN called /\ called[timers[i].fn].burst,
     open |-> _is_open,
     filter_pending |-> pending(without(timers, i), "_on_filter") # {},
     shown |-> visible.choices,
     text |-> filter,
     acted |-> after.selection # _selection \/ after.temporary # _temporary]

\* the event loop runs a call that is due
Fire(i) ==
    /\ mode \in PageModes \cup {"debounce"}
    /\ i \in DOMAIN timers /\ timers[i].left = 0
    /\ IF mode = "debounce"
       THEN /\ timers' = without(timers, i)
            /\ called' = note_run(called, timers[i].fn)
            /\ ran' = Ran(i, [selection |-> _selection, temporary |-> _temporary])
            /\ last' = [op |-> "fire", key |-> "", arg |-> <<>>]
            /\ UNCHANGED <<mode, raw, data, fields, _attribs, _calcs, _elems, err, hist,
                           _selection, _temporary, _is_open, selected, filter, visible,
                           labels>>
            /\ Idle
       ELSE /\ Commit(body(timers[i].fn, Due(i)), "fire", "", <<>>)
            /\ ran' = Ran(i, body(timers[i].fn, Due(i)))
    /\ opened' = IF timers[i].fn = "_on_filter" THEN opened ELSE NoSession

\* ArmamentContainer._on_affinity: the change event of an entry's affinity menu
OnAffinity(key, name) ==
    /\ Quiet /\ data # NoData
    /\ key \in DOMAIN _elems
    /\ _elems[key].priv_affinities.is_enabled
    /\ name \in Range(_elems[key].priv_affinities.options)
    /\ \E picked \in {[_elems[key] EXCEPT !.priv_affinities.value = name]} :
       \E set \in {set_affinity(data, _calcs[key], name)} :
       \E upd \in {Repaint(raw, data, picked, set.eng, _attribs)} :
           /\ last' = [op |-> "on_affinity", key |-> key, arg |-> name]
           /\ hist' = NoTrip
           /\ _calcs' = [_calcs EXCEPT ![key] = set.eng]
           /\ IF set.err # "ok"
              THEN /\ err' = set.err
                   /\ _elems' = [_elems EXCEPT ![key] = picked]
              ELSE /\ err' = upd.err
                   /\ _elems' = [_elems EXCEPT ![key] = upd.et]
    /\ UNCHANGED <<mode, raw, data, fields, _attribs>>
    /\ Idle
    /\ SelectorKept

\* ArmamentContainer._on_level: the change event of an entry's level menu
OnLevel(key, text) ==
    /\ Quiet /\ data # NoData
    /\ key \in DOMAIN _elems
    /\ text \in Range(_elems[key].priv_levels.options)
    /\ \E picked \in {[_elems[key] EXCEPT !.priv_levels.value = text]} :
       \E set \in {set_level(data, _calcs[key], level_of(text))} :
       \E upd \in {Repaint(raw, data, picked, set.eng, _attribs)} :
           /\ last' = [op |-> "on_level", key |-> key, arg |-> text]
           /\ hist' = IF set.err # "ok" THEN NoTrip
                      ELSE Trip(hist, key, _elems[key].priv_levels.value, text,
                                Shown(_elems[key]))
           /\ _calcs' = [_calcs EXCEPT ![key] = set.eng]
           /\ IF set.err # "ok"
              THEN /\ err' = set.err
                   /\ _elems' = [_elems EXCEPT ![key] = picked]
              ELSE /\ err' = upd.err
                   /\ _elems' = [_elems EXCEPT ![key] = upd.et]
    /\ UNCHANGED <<mode, raw, data, fields, _attribs>>
    /\ Idle
    /\ SelectorKept

\* mutant: the value is capped at 99 only
clamped_Capped(n) == IF n > 99 THEN 99 ELSE n

\* value = max(1, min(99, int(element.value)))
clamped(n) == IF n > 99 THEN 99 ELSE IF n < 1 THEN 1 ELSE n

\* mutant: the handler rebuilds every calculator as add does
OnChange_Rebuild(attribute, text) ==
    /\ Quiet /\ data # NoData
    /\ IsInt(text)
    /\ \E f \in {[fields EXCEPT ![attribute] = str(clamped(int(text)))]} :
       \E attribs \in {_create_attribs(f)} :
       \E calcs \in {[k \in DOMAIN _calcs |-> ArmamentCalculator(data, k, "Standard", 0).eng]} :
       \E upd \in {[k \in DOMAIN _elems |-> Repaint(raw, data, _elems[k], calcs[k], attribs)]} :
           /\ fields' = f
           /\ _attribs' = attribs
           /\ _calcs' = calcs
           /\ _elems' = [k \in DOMAIN _elems |-> upd[k].et]
           /\ err' = "ok"
           /\ last' = [op |-> "on_attributes", key |-> "", arg |-> <<>>]
           /\ hist' = NoTrip
    /\ UNCHANGED <<mode, raw, data>>
    /\ Idle
    /\ SelectorKept

\* AttributeMenu._on_change up to the callback: the fields it leaves, and
\* whether the callback is invoked.  int raises ValueError on a text that is
\* no integer: in the handler's own try the handler returns, in
\* _create_attribs, on the text of another field, the exception leaves it.
_on_change(f, attribute, text) ==
    IF ~IsInt(text)
    THEN [fields |-> [f EXCEPT ![attribute] = text], called |-> FALSE, err |-> "ok"]
    ELSE IF \E a \in Range(AttributeNames) \ {attribute} : ~IsInt(f[a])
    THEN [fields |-> [f EXCEPT ![attribute] = str(clamped(int(text)))],
          called |-> FALSE, err |-> "ValueError"]
    ELSE [fields |-> [f EXCEPT ![attribute] = str(clamped(int(text)))],
          called |-> TRUE, err |-> "ok"]

\* the input event of an attribute field that holds the text:
\* AttributeMenu._on_change, then ArmamentContainer._on_attributes
OnChange(attribute, text) ==
    /\ (Quiet \/ mode = "fields") /\ data # NoData
    /\ \E r \in {_on_change(fields, attribute, text)} :
          /\ fields' = r.fields
          /\ IF r.called
             THEN \E attribs \in {_create_attribs(r.fields)} :
                  \E upd \in {[k \in DOMAIN _elems |->
                                  Repaint(raw, data, _elems[k], _calcs[k], attribs)]} :
                      /\ _attribs' = attribs
                      /\ _elems' = [k \in DOMAIN _elems |-> upd[k].et]
                      /\ err' = IF \E k \in DOMAIN _elems : upd[k].err # "ok"
                                THEN (CHOOSE e \in {upd[k].err : k \in DOMAIN _elems} : e # "ok")
                                ELSE "ok"
                      /\ last' = [op |-> "on_attributes", key |-> "", arg |-> <<>>]
             ELSE /\ err' = r.err
                  /\ last' = [op |-> "on_change", key |-> "", arg |-> <<>>]
                  /\ UNCHANGED <<_attribs, _elems>>
    /\ hist' = NoTrip
    /\ UNCHANGED <<mode, raw, data, _calcs>>
    /\ Idle
    /\ SelectorKept

-----------------------------------------------------------------------------
(* A session that owns one engine and calls its operations *)

WebIdle ==
    UNCHANGED <<graph, cv, fields, _attribs, _calcs, _elems, stdout, cell, _selection,
                _temporary, _is_open, selected, filter, visible, labels, timers, called,
                ran, opened>>

\* the totals the engine computes for every attribute set of the session
totals_of(ap, se) ==
    IF ap.err # "ok" \/ se.err # "ok" THEN [err |-> "failed"]
    ELSE [err |-> "ok",
          attack_power |-> [t \in Range(DamageTypes) |-> ap.items[t].total],
          total |-> ap.total.total,
          status_effect |-> [t \in Range(StatusTypes) |-> se.items[t].total]]

Totals(d, eng) ==
    [attrs \in SessionAttributes |->
        totals_of(attack_power(d, eng, attrs), status_effects(d, eng, attrs))]

\* Totals, computed once per input
TotalsTable == [t \in WellFormedTables |-> [eng \in EngineStates(t) |-> Totals(t, eng)]]

TotalsOf(d, eng) ==
    IF d \in DOMAIN TotalsTable /\ eng \in DOMAIN TotalsTable[d]
    THEN TotalsTable[d][eng] ELSE Totals(d, eng)

Construct(key, affinity, level) ==
    /\ mode = "api" /\ data # NoData
    /\ \E made \in {ArmamentCalculator(data, key, affinity, level)} :
           /\ engine' = IF made.err = "ok" THEN made.eng ELSE engine
           /\ err' = made.err
           /\ last' = [op |-> "construct", key |-> key, arg |-> <<affinity, level>>]
           /\ out' = [op |-> "construct", before |-> engine]
    /\ hist' = NoTrip
    /\ UNCHANGED <<mode, raw, data>>
    /\ WebIdle

SetAffinity(name) ==
    /\ mode = "api" /\ engine # NoEngine
    /\ \E set \in {set_affinity(data, engine, name)} :
           /\ engine' = set.eng
           /\ err' = set.err
           /\ last' = [op |-> "set_affinity", key |-> engine.weapon_key, arg |-> name]
           /\ out' = [op |-> "set_affinity", before |-> engine]
    /\ hist' = NoTrip
    /\ UNCHANGED <<mode, raw, data>>
    /\ WebIdle

SetLevel(n) ==
    /\ mode = "api" /\ engine # NoEngine
    /\ \E set \in {set_level(data, engine, n)} :
           /\ engine' = set.eng
           /\ err' = set.err
           /\ last' = [op |-> "set_level", key |-> engine.weapon_key, arg |-> n]
           /\ out' = [op |-> "set_level", before |-> engine]
           /\ hist' = IF set.err # "ok" THEN hist
                      ELSE Trip(hist, engine.weapon_key, engine.level, n, TotalsOf(data, engine))
    /\ UNCHANGED <<mode, raw, data>>
    /\ WebIdle

AttackPower(attrs) ==
    /\ mode = "api" /\ engine # NoEngine
    /\ out' = [op |-> "attack_power", before |-> engine, attrs |-> attrs,
               value |-> attack_power(data, engine, attrs)]
    /\ err' = out'.value.err
    /\ last' = [op |-> "attack_power", key |-> engine.weapon_key, arg |-> <<>>]
    /\ UNCHANGED <<mode, raw, data, engine, hist>>
    /\ WebIdle

StatusEffects(attrs) ==
    /\ mode = "api" /\ engine # NoEngine
    /\ out' = [op |-> "status_effects", before |-> engine, attrs |-> attrs,
               value |-> status_effects(data, engine, attrs)]
    /\ err' = out'.value.err
    /\ last' = [op |-> "status_effects", key |-> engine.weapon_key, arg |-> <<>>]
    /\ UNCHANGED <<mode, raw, data, engine, hist>>
    /\ WebIdle

-----------------------------------------------------------------------------
(* The command line: App.calculate_ar *)

\* mutant: base and scaling printed in each other's place
Line_Swapped(type, value) ==
    [type |-> type, base |-> value.scaling, scaling |-> value.base, total |-> value.total]

\* f"{attack_type}: {value.base} +{value.scaling} ({value.total})"
Line(type, value) ==
    [type |-> type, base |-> value.base, scaling |-> value.scaling, total |-> value.total]

Lines(values, types) == [i \in DOMAIN types |-> Line(types[i], values[types[i]])]

Header(attribs, armament, affinity, level) ==
    [type |-> ">>>", attribs |-> attribs, armament |-> armament,
     affinity |-> affinity, level |-> level]

\* one run of the command: load the tables, build the engine, print
calculate_ar(attribs, armament, affinity, level) ==
    /\ mode = "cli" /\ stdout = <<>>
    /\ \E built \in {CalculatorData(raw)} :
       \E calc \in {ArmamentCalculator(built.data, armament, affinity, level)} :
       \E ap \in {IF calc.err = "ok" THEN attack_power(built.data, calc.eng, attribs)
                  ELSE [err |-> calc.err]} :
       \E se \in {IF calc.err = "ok" THEN status_effects(built.data, calc.eng, attribs)
                  ELSE [err |-> calc.err]} :
       \E head \in {<<Header(attribs, armament, affinity, level)>>} :
           /\ data' = built.data
           /\ IF built.err # "ok"
              THEN /\ err' = built.err /\ stdout' = head /\ engine' = engine
              ELSE IF calc.err # "ok"
              THEN /\ err' = calc.err /\ stdout' = head /\ engine' = engine
              ELSE IF ap.err # "ok"
              THEN /\ err' = ap.err /\ stdout' = head /\ engine' = calc.eng
              ELSE IF se.err # "ok"
              THEN /\ err' = se.err /\ engine' = calc.eng
                   /\ stdout' = head \o Lines(ap.items, DamageTypes)
              ELSE /\ err' = "ok"
                   /\ engine' = calc.eng
                   /\ stdout' = head \o Lines(ap.items, DamageTypes)
                                     \o Lines(se.items, StatusTypes)
    /\ last' = [op |-> "calculate_ar", key |-> armament, arg |-> <<affinity, level>>]
    /\ UNCHANGED <<graph, cv, mode, raw, fields, _attribs, _calcs, _elems, out, hist, cell>>
    /\ SelectorIdle

-----------------------------------------------------------------------------
(* The page, the session and the command line *)

Init ==
    /\ mode \in {"web", "api", "cli", "fields", "select", "keys", "debounce", "grade"}
    /\ raw \in IF mode \in {"web", "api", "cli"} THEN RawTables ELSE {Tables}
    /\ graph = Empty /\ cv = NoCall
    /\ data = IF mode = "cli" THEN NoData ELSE CalculatorData(raw).data
    /\ err = IF mode = "cli" THEN "ok" ELSE CalculatorData(raw).err
    /\ fields \in IF mode \in {"select", "keys"} THEN {[a \in Range(AttributeNames) |-> <<"2", "0">>]}
                  ELSE IF mode \in {"web", "fields"} /\ WellFormed(raw)
                  THEN {f \in [Range(AttributeNames) -> {<<"1">>, <<"2", "0">>, <<"9", "9">>}] :
                          \A a \in Range(AttributeNames) : f[a] \in FieldTexts(a)}
                  ELSE {Empty}
    /\ _attribs = IF fields = Empty THEN Empty ELSE _create_attribs(fields)
    /\ _calcs = Empty /\ _elems = Empty
    /\ last = NoOut
    /\ engine = NoEngine /\ out = NoOut /\ stdout = <<>> /\ hist = NoTrip
    /\ cell = NoCell
    /\ ran = NoRun /\ opened = NoSession
    /\ IF mode \in PageModes /\ data # NoData
       THEN \E s \in {on_save(Blank)} :
               /\ _selection = s.selection /\ _temporary = s.temporary
               /\ _is_open = s.is_open /\ selected = s.selected /\ filter = s.filter
               /\ visible = s.visible /\ labels = s.labels /\ timers = s.timers
               /\ called = s.called
       ELSE /\ _selection = {} /\ _temporary = {} /\ _is_open = FALSE /\ selected = {}
            /\ filter = <<>> /\ visible = NothingShown /\ labels = NoLabels
            /\ timers = <<>> /\ called = Empty

Next ==
    \/ OnOpen
    \/ \E key \in WeaponNames : OnArmament(key)
    \/ \E category \in category_names : OnCategory(category)
    \/ OnAllArmaments
    \/ OnSave
    \/ OnClose
    \/ \E key \in WeaponNames : Remove(key)
    \/ \E text \in FilterTexts : OnFilterInput(text)
    \/ \E code \in {"Slash", "Enter"} : OnKeyDown(code)
    \/ \E fn \in {"_on_filter", "select_and_save"}, args \in CallArgs : Call(fn, args)
    \/ Tick
    \/ \E i \in 1..MaxPending : Fire(i)
    \/ \E value \in ScalingValues : SetScaling(value)
    \/ \E key \in WeaponNames, name \in AffinityInputs : OnAffinity(key, name)
    \/ \E key \in WeaponNames, n \in 0..MaxLevelInput : OnLevel(key, <<"+">> \o str(n))
    \/ \E attribute \in Range(AttributeNames) :
          \E text \in InputTexts(attribute) \cup
                       (IF mode = "fields" THEN OtherTexts(attribute) ELSE {}) :
             OnChange(attribute, text)
    \/ \E key \in WeaponNames, name \in AffinityInputs, n \in LevelInputs : Construct(key, name, n)
    \/ \E name \in AffinityInputs : SetAffinity(name)
    \/ \E n \in LevelInputs : SetLevel(n)
    \/ \E attrs \in SessionAttributes : AttackPower(attrs)
    \/ \E attrs \in SessionAttributes : StatusEffects(attrs)
    \/ \E attrs \in SessionAttributes, key \in WeaponNames, name \in AffinityInputs,
          n \in LevelInputs : calculate_ar(attrs, key, name, n)

Spec == Init /\ [][Next]_vars

-----------------------------------------------------------------------------
(* Properties *)

\* the number a cell shows: "-" stands for 0
CellValue(text) == IF text = <<"-">> THEN 0 ELSE int(text)

EntryKeys == DOMAIN _elems

\* an entry that has been painted since it was created
Painted(k) == _elems[k].priv_attack_power["total"] # <<>>

\* C1: the aggregate entry of attack_power has total equal to the sum of the
\* five per-type totals, each floor(max(0, base + scaling)), and its base and
\* scaling are the sums of the per-type base and scaling; the page's total
\* cell shows the sum of what its five per-type cells show.
C1_TotalIsSum ==
    /\ (out.op = "attack_power" /\ out.value.err = "ok") =>
          LET v == out.value
          IN  /\ v.total.total = ISum([t \in Range(DamageTypes) |-> v.items[t].total], DamageTypes)
              /\ v.total.base = RSum([t \in Range(DamageTypes) |-> v.items[t].base], DamageTypes)
              /\ v.total.scaling =
                    RSum([t \in Range(DamageTypes) |-> v.items[t].scaling], DamageTypes)
              /\ \A t \in Range(DamageTypes) :
                    v.items[t].total =
                        floor(RMax(RInt(0), RAdd(v.items[t].base, v.items[t].scaling)))
    /\ \A k \in EntryKeys :
          Painted(k) =>
              CellValue(_elems[k].priv_attack_power["total"]) =
                  ISum([t \in Range(DamageTypes) |-> CellValue(_elems[k].priv_attack_power[t])],
                       DamageTypes)

\* a painted entry whose per-type values have fractions that add up to more
\* than the sum of the totals shown
C1_Witness ==
    /\ mode = "web"
    /\ \E k \in EntryKeys :
          /\ Painted(k)
          /\ LET ap == attack_power(data, _calcs[k], _attribs)
             IN  /\ CellValue(_elems[k].priv_attack_power["total"]) = ap.total.total
                 /\ ap.total.total > 0
                 /\ total_cell_Recomputed(ap) # ap.total.total

\* C4: set_level(n) fails with LevelOutOfRange exactly when n is negative or
\* above the weapon's maximum level, the length of its upgrade-cost sequence,
\* and every level an entry's level menu offers is accepted.
C4_LevelRange ==
    /\ last.op = "set_level" =>
          LET top == Len(data.armaments[last.key].upgrade_costs)
          IN  /\ err = "LevelOutOfRange" <=> (last.arg < 0 \/ last.arg > top)
              /\ err = "ok" <=> (0 <= last.arg /\ last.arg <= top)
              /\ err = "ok" => engine = [out.before EXCEPT !.level = last.arg]
              /\ err # "ok" => engine = out.before
    /\ last.op = "on_level" =>
          /\ err = "ok"
          /\ <<"+">> \o str(_calcs[last.key].level) = last.arg
    /\ \A k \in EntryKeys :
          LET top == Len(raw.armaments[k].upgrade_costs)
          IN  /\ Len(_elems[k].priv_levels.options) = top + 1
              /\ \A n \in 0..top : _elems[k].priv_levels.options[n + 1] = <<"+">> \o str(n)

\* the last entry of a level menu has been picked and accepted
C4_Witness ==
    /\ last.op = "on_level"
    /\ last.arg = _elems[last.key].priv_levels.options[Len(_elems[last.key].priv_levels.options)]
    /\ _calcs[last.key].level = Len(raw.armaments[last.key].upgrade_costs)
    /\ _calcs[last.key].level > 0

\* C5: set_affinity(name) with a name that is not a variant of the weapon
\* fails with UnknownAffinity and leaves (weapon_key, affinity, level) as it
\* was; with a variant's name it rebinds the affinity, which changes nothing
\* when the name is the selected one.  An entry's affinity menu, when enabled,
\* offers only variants.
C5_Affinity ==
    /\ last.op = "set_affinity" =>
          IF last.arg \in DOMAIN data.armaments[last.key].affinity
          THEN /\ err = "ok"
               /\ engine = [out.before EXCEPT !.affinity = last.arg]
               /\ last.arg = out.before.affinity => engine = out.before
          ELSE /\ err = "UnknownAffinity"
               /\ engine = out.before
    /\ last.op = "on_affinity" =>
          /\ err = "ok"
          /\ _calcs[last.key].affinity = last.arg

\* an unknown affinity was refused by an engine away from its initial level
C5_Witness ==
    /\ last.op = "set_affinity"
    /\ err = "UnknownAffinity"
    /\ engine.level > 0
    /\ engine = out.before

\* C6: attack_power and status_effects, and the repainting of the page when
\* the attributes change, leave every engine's affinity and level and the
\* tables unchanged; an engine's state changes only in set_affinity,
\* set_level and the engine's construction.
C6_PureReads ==
    [][/\ last'.op \in {"attack_power", "status_effects"} =>
             engine' = engine /\ data' = data /\ raw' = raw
       /\ last'.op = "on_attributes" => _calcs' = _calcs /\ data' = data /\ raw' = raw
       /\ engine' # engine => last'.op \in {"set_affinity", "set_level", "construct", "calculate_ar"}
       /\ \A k \in DOMAIN _calcs \cap DOMAIN _calcs' :
             _calcs'[k] # _calcs[k] => last'.op \in {"on_affinity", "on_level"}
       /\ (mode # "cli" => data' = data) /\ raw' = raw]_vars

\* the page was repainted for new attributes while an engine was away from
\* the state it is created in
C6_Witness ==
    /\ last.op = "on_attributes"
    /\ \E k \in EntryKeys : _calcs[k].level > 0 /\ _calcs[k].affinity # "Standard"

\* the scaling the formula gives a type: the type's rate times the sum over
\* the attributes the variant scales on of evaluate(curve, value) * multiplier / 100
FormulaScaling(d, variant, attrs, type) ==
    LET table == d.correction_attack[variant.correction_id]
        part == [a \in Range(AttributeNames) |->
                    IF Get(variant.scaling, a, RInt(0)) = RInt(0) THEN RInt(0)
                    ELSE RDiv(RMul(evaluate(d.correction_graph, table[a].curve, attrs[a]).val,
                                   table[a].multiplier),
                              RInt(100))]
    IN  RMul(Get(variant.scaling_rate, type, RInt(0)), RSum(part, AttributeNames))

\* what the formula gives for one printed line
FormulaLine(d, eng, attrs, type) ==
    LET variant == d.armaments[eng.weapon_key].affinity[eng.affinity]
        row == d.reinforcements[str(variant.reinforcement_id)][eng.level + 1]
        base == IF type \in Range(DamageTypes)
                THEN RMul(Get(variant.damage, type, RInt(0)), row.damage[type])
                ELSE RMul(Get(variant.status_effects, type, RInt(0)), row.status_effects[type])
        scaling == FormulaScaling(d, variant, attrs, type)
    IN  [type |-> type, base |-> base, scaling |-> scaling,
         total |-> floor(RMax(RInt(0), RAdd(base, scaling)))]

Printed == last.op = "calculate_ar" /\ err = "ok"

\* C7: every line calculate_ar prints has base = base_attack * the level's
\* multiplier, scaling = the type's rate times the summed contributions, and
\* total = floor(max(0, base + scaling)), a non-negative integer; the weapon
\* with physical base 100, multiplier 1, rate 1 and a curve giving 50 at
\* strength 20 with multiplier 100 prints scaling 50 and total 150.
C7_Formula ==
    Printed =>
        /\ Len(stdout) = 1 + Len(DamageTypes) + Len(StatusTypes)
        /\ \A i \in 1..Len(DamageTypes) :
              stdout[1 + i] = FormulaLine(data, engine, stdout[1].attribs, DamageTypes[i])
        /\ \A i \in 1..Len(StatusTypes) :
              stdout[1 + Len(DamageTypes) + i] =
                  FormulaLine(data, engine, stdout[1].attribs, StatusTypes[i])
        /\ \A i \in 2..Len(stdout) : stdout[i].total \in Nat
        /\ (/\ stdout[1].armament = "Club" /\ stdout[1].affinity = "Standard"
            /\ stdout[1].level = 0 /\ stdout[1].attribs["strength"] = 20) =>
              /\ stdout[2].type = "physical"
              /\ stdout[2].base = RInt(100)
              /\ stdout[2].scaling = RInt(50)
              /\ stdout[2].total = 150

\* the scenario of the claim has been printed
C7_Witness ==
    /\ Printed
    /\ stdout[1].armament = "Club" /\ stdout[1].affinity = "Standard"
    /\ stdout[1].level = 0 /\ stdout[1].attribs["strength"] = 20
    /\ stdout[2] = [type |-> "physical", base |-> RInt(100), scaling |-> RInt(50), total |-> 150]

\* C8: after a level change away from a level and the next level change back
\* to it, the engine gives the totals it gave before the two changes: the
\* entry shows the same attack power and status effect cells, the session's
\* engine computes the same totals for every attribute set.
C8_RoundTrip ==
    hist.stage = 2 =>
        IF mode = "web" THEN Shown(_elems[hist.key]) = hist.shown
        ELSE Totals(data, engine) = hist.shown

\* a round trip on the page that started from a level above 0
C8_Witness ==
    /\ hist.stage = 2 /\ mode = "web"
    /\ hist.level0 # <<"+", "0">>
    /\ _elems[hist.key].priv_levels.value = hist.level0
    /\ _calcs[hist.key].affinity # "Standard"

\* a variant whose reinforcement group has fewer than max_level + 1 rows, or
\* whose correction group misses an attribute the variant scales on
Malformed(t) ==
    \E k \in DOMAIN t.armaments :
        \E n \in DOMAIN t.armaments[k].affinity :
            LET variant == t.armaments[k].affinity[n]
                group == str(variant.reinforcement_id)
            IN  \/ group \notin DOMAIN t.reinforcements
                \/ Len(t.reinforcements[group]) < Len(t.armaments[k].upgrade_costs) + 1
                \/ variant.correction_id \notin DOMAIN t.correction_attack
                \/ \E a \in Range(AttributeNames) :
                      /\ Get(variant.scaling, a, RInt(0)) # RInt(0)
                      /\ a \notin DOMAIN t.correction_attack[variant.correction_id]

Constructed == mode \in {"web", "api"} \/ last.op = "calculate_ar"

\* C9: construction from malformed tables fails with MalformedTable and
\* yields no BalanceData; in every BalanceData that was constructed each
\* weapon, affinity and level in 0..max_level resolves to a reinforcement row,
\* and no lookup of the page or of the engine fails.
C9_Validated ==
    /\ (Constructed /\ Malformed(raw)) => (data = NoData /\ err = "MalformedTable")
    /\ data # NoData =>
          /\ data = raw
          /\ \A k \in DOMAIN data.armaments :
                \A n \in DOMAIN data.armaments[k].affinity :
                    \A l \in 0..Len(data.armaments[k].upgrade_costs) :
                        reinforcement_row(data, data.armaments[k].affinity[n].reinforcement_id,
                                          l).err = "ok"
          /\ err \notin {"KeyError", "IndexError", "NotFound", "UnknownCorrectionGroup",
                         "UnknownAttributeMapping", "UnknownCurve"}

\* the command line refused tables whose reinforcement sequence is too short
C9_Witness ==
    /\ last.op = "calculate_ar"
    /\ Len(raw.reinforcements[<<"0">>]) < Len(raw.armaments["Club"].upgrade_costs) + 1
    /\ err = "MalformedTable" /\ data = NoData
    /\ Len(stdout) = 1

\* C10: a requirement is shown as met exactly when the player's value is at
\* least the weapon's requirement, an absent requirement counting as 0; so a
\* requirement that is met stays met when the value does not decrease, and an
\* attribute the weapon has no requirement on is always met.
C10_Requirement ==
    /\ [](\A k \in EntryKeys : \A a \in Range(AttributeNames) :
            Painted(k) =>
                /\ ~_elems[k].priv_requirement[a].danger <=>
                      (_attribs[a] >= Get(raw.armaments[k].requirements, a, 0))
                /\ a \notin DOMAIN raw.armaments[k].requirements =>
                      ~_elems[k].priv_requirement[a].danger)
    /\ [][\A k \in DOMAIN _elems \cap DOMAIN _elems' : \A a \in Range(AttributeNames) :
            (/\ Painted(k)
             /\ ~_elems[k].priv_requirement[a].danger
             /\ _attribs'[a] >= _attribs[a]) => ~_elems'[k].priv_requirement[a].danger]_vars

\* a requirement met with nothing to spare
C10_Witness ==
    \E k \in EntryKeys : \E a \in Range(AttributeNames) :
        /\ Painted(k)
        /\ a \in DOMAIN raw.armaments[k].requirements
        /\ _attribs[a] = raw.armaments[k].requirements[a]
        /\ ~_elems[k].priv_requirement[a].danger

-----------------------------------------------------------------------------
(* Scaling grades *)

Grades == <<"-", "E", "D", "C", "B", "A", "S">>

\* the values the grade stands for
InBand(g, v) ==
    IF g = "S" THEN RLe(<<7, 4>>, v)
    ELSE IF g = "A" THEN RLe(<<7, 5>>, v) /\ RLt(v, <<7, 4>>)
    ELSE IF g = "B" THEN RLe(<<9, 10>>, v) /\ RLt(v, <<7, 5>>)
    ELSE IF g = "C" THEN RLe(<<3, 5>>, v) /\ RLt(v, <<9, 10>>)
    ELSE IF g = "D" THEN RLe(<<1, 4>>, v) /\ RLt(v, <<3, 5>>)
    ELSE IF g = "E" THEN RLt(<<0, 1>>, v) /\ RLt(v, <<1, 4>>)
    ELSE g = "-" /\ RLe(v, <<0, 1>>)

Rank(g) == CHOOSE i \in DOMAIN Grades : Grades[i] = g

\* the value of an entry's scaling cell: the affinity's scaling of the
\* attribute, 0 when it has none, times the scaling multiplier of the
\* reinforcement row at the entry's level
ScalingOf(k, a) ==
    RMul(Get(raw.armaments[k].affinity[_calcs[k].affinity].scaling, a, RInt(0)),
         raw.reinforcements[str(raw.armaments[k].affinity[_calcs[k].affinity].reinforcement_id)]
                           [_calcs[k].level + 1].scaling[a])

\* C11: a scaling value is graded S from 1.75, A from 1.40, B from 0.90, C
\* from 0.60, D from 0.25, E above 0 and "-" otherwise: every value gets
\* exactly one grade, the grade never falls when the value rises, and the
\* value graded in an entry's cell is the affinity's scaling of the attribute
\* (0 when absent) times the reinforcement row's scaling multiplier.
C11_Grades ==
    /\ [](/\ cell.called =>
                /\ InBand(cell.priv_scaling["strength"].text, cell.value)
                /\ \A g \in Range(Grades) :
                      InBand(g, cell.value) => g = cell.priv_scaling["strength"].text
          /\ \A k \in EntryKeys : Painted(k) =>
                \A a \in Range(AttributeNames) :
                    InBand(_elems[k].priv_scaling[a].text, ScalingOf(k, a)))
    /\ [][(cell.called /\ cell'.called /\ RLe(cell.value, cell'.value)) =>
             Rank(cell.priv_scaling["strength"].text) <=
                 Rank(cell'.priv_scaling["strength"].text)]_vars

\* a value on the threshold of S is graded S
C11_Witness ==
    /\ cell.called /\ cell.value = <<7, 4>>
    /\ cell.priv_scaling["strength"].text = "S"

-----------------------------------------------------------------------------
(* The selection dialog *)

\* C12: when the body of select_and_save runs on an open dialog with a filter
\* text, no call of _on_filter is pending and the choices shown are those
\* the filter text matches, however filter input and Enter presses interleave.
C12_FilterCompleted ==
    (ran.fn = "select_and_save" /\ ran.open /\ ran.text # <<>>) =>
        /\ ~ran.filter_pending
        /\ ran.shown = matching(ran.text)

\* C13: a session that is opened, toggled in and closed leaves _selection and
\* the container's entries as they were, and the next on_open marks exactly
\* the choices whose key is in _selection, whatever marks were left behind.
C13_Cancel ==
    /\ (opened.clean /\ opened.stage = "closed") =>
          /\ _selection = opened.selection
          /\ _calcs = opened.calcs
          /\ _elems = opened.elems
    /\ last.op \in {"on_open", "toggle"} =>
          /\ selected = _selection
          /\ _temporary = _selection

\* the dialog is opened after a cancelled session that left other marks
\* than the selection
C13_Witness ==
    /\ last.op = "on_open" /\ last.arg.cancelled
    /\ last.arg.marks # _selection
    /\ _selection # {}
    /\ selected = _selection

\* C15: after every handler of the selector the container's calculators and
\* entries are keyed by _selection; on_save removes the entries of the keys
\* selected but not chosen, adds fresh entries for the keys chosen but not
\* selected, and leaves the other entries as they are.
C15_Container ==
    /\ []((mode \in PageModes /\ data # NoData) =>
            /\ DOMAIN _calcs = _selection
            /\ DOMAIN _elems = _selection)
    /\ [][(last'.op = "on_save" /\ err' = "ok") =>
             /\ DOMAIN _elems' = (DOMAIN _elems \ (_selection \ _temporary))
                                    \cup (_temporary \ _selection)
             /\ \A k \in _selection \cap _temporary :
                   _elems'[k] = _elems[k] /\ _calcs'[k] = _calcs[k]
             /\ \A k \in _temporary \ _selection :
                   _calcs'[k] = [weapon_key |-> k, affinity |-> "Standard", level |-> 0]]_vars

\* a save that removes an entry and adds another
C15_Witness ==
    /\ last.op = "on_save" /\ err = "ok"
    /\ last.arg.removed # {} /\ last.arg.added # {}
    /\ DOMAIN _elems = _selection

-----------------------------------------------------------------------------
(* debounce *)

\* C17: a debounced function has at most one call pending; of a burst of
\* calls only the last one's body runs, once, with the arguments of the last
\* call, the delay after it.
C17_Debounce ==
    /\ \A fn \in {"_on_filter", "select_and_save"} : Cardinality(pending(timers, fn)) <= 1
    /\ ran.fn # "none" =>
          /\ ~ran.again
          /\ ran.args = ran.last_args
          /\ ran.since = delay_of(ran.fn)

\* the body runs for a call that took the place of one with other arguments
C17_Witness ==
    /\ mode = "debounce"
    /\ ran.fn = "_on_filter" /\ ran.burst
    /\ ran.args = "b" /\ ran.since = FilterDelay

-----------------------------------------------------------------------------
(* The attribute fields *)

Least(a, b) == IF a <= b THEN a ELSE b
Greatest(a, b) == IF a >= b THEN a ELSE b

\* max(1, min(99, n))
Within(n) == Greatest(1, Least(99, n))

\* C14: an input event on an attribute field whose text is the integer v
\* rewrites the field to max(1, min(99, v)) before the callback is invoked,
\* so every attribute delivered is in 1..99; an input event whose text is no
\* integer leaves the text in the field and does not invoke the callback.
C14_Clamp ==
    /\ []((mode \in {"web", "fields"} /\ data # NoData) =>
            \A attribute \in Range(AttributeNames) :
                \A text \in InputTexts(attribute) \cup OtherTexts(attribute) :
                    IF IsInt(text)
                    THEN _on_change(fields, attribute, text).fields =
                             [fields EXCEPT ![attribute] = str(Within(int(text)))]
                    ELSE /\ _on_change(fields, attribute, text).fields =
                                [fields EXCEPT ![attribute] = text]
                         /\ ~_on_change(fields, attribute, text).called)
    /\ [][last'.op = "on_attributes" =>
             \A a \in Range(AttributeNames) :
                 /\ _attribs'[a] = int(fields'[a])
                 /\ _attribs'[a] \in 1..99]_vars
    /\ [][(\E a \in DOMAIN fields : fields'[a] # fields[a] /\ ~IsInt(fields'[a])) =>
             /\ last'.op = "on_change"
             /\ UNCHANGED <<_attribs, _calcs, _elems>>]_vars

\* a text below the range was typed and the field rewritten to 1, while
\* another field holds a text that is no integer and was left as it was
\* typed: the callback has not been given the attributes
C14_Witness ==
    /\ mode = "fields" /\ last.op = "on_change" /\ err = "ValueError"
    /\ fields["strength"] = <<"1">> /\ _attribs["strength"] # 1
    /\ fields["arcane"] = <<"1", ".", "5">>

====
